---- MODULE Spec2Model ----
(***************************************************************************)
(* The vector storage engine of the RAG service: the VectorStore class     *)
(* (backend/utils/vector_store.py) and the handlers of backend/main.py     *)
(* that drive it through the process-wide cache vector_stores.             *)
(*                                                                         *)
(* A chunk text is the pair <<d, i>>: the i-th chunk of document d.  The   *)
(* handler upload_document derives the embedding and the metadata record   *)
(* of a chunk from its text, and so do Embed and Metadata below.           *)
(***************************************************************************)
EXTENDS Integers, Sequences, FiniteSets, TLC

\* Index dimension (self.dimension, 384 in the source), scaled down.
Dim == 2
\* Largest number of entries the stores of all collections hold together.
MaxStore == 3
\* Number of disk faults injected in one run.
MaxFaults == 1

Names == {"a", "b"}
Docs == {"A", "B"}

VARIABLES
    vector_stores,  \* main.py:52, name -> cached VectorStore instance (or not cached)
    disk,           \* the files <name>.index and <name>.pkl of the persist directory
    faults,         \* disk faults injected so far
    gone,           \* history: the collection and document of the latest
                    \* delete_document that succeeded, until that document
                    \* is added to that collection again
    last,           \* the last call and what it returned to its caller
    tasks,          \* the requests the event loop holds, each with the
                    \* statement its handler has reached
    chunker         \* the call of text_chunker.chunk_text in progress: the cleaned
                    \* text, the configuration and the locals of the fallback loop

vars == <<vector_stores, disk, faults, gone, last, tasks, chunker>>

----------------------------------------------------------------------------
(* Values *)

Min(x, y) == IF x <= y THEN x ELSE y
Max(x, y) == IF x >= y THEN x ELSE y

Front(s) == SubSeq(s, 1, Len(s) - 1)

\* The subsequence of s at the ascending positions of the set P.
RECURSIVE Pick(_, _, _)
Pick(s, P, i) ==
    IF i > Len(s) THEN <<>>
    ELSE IF i \in P THEN <<s[i]>> \o Pick(s, P, i + 1)
    ELSE Pick(s, P, i + 1)

Unit(j) == [n \in 1..Dim |-> IF n = j THEN 1 ELSE 0]
Ones == [n \in 1..Dim |-> 1]

DocNum(d) == IF d = "A" THEN 0 ELSE 1

\* TextChunker.chunk_text is a function of the document: A is cut into two
\* chunks, B into one.
NChunks(d) == IF d = "A" THEN 2 ELSE 1

\* EmbeddingGenerator.generate_embeddings on one text: a fixed function of
\* the text.  Distinct texts may share a vector.
Embed(t) ==
    LET j == (DocNum(t[1]) * 2 + t[2]) % (Dim + 1)
    IN  IF j = Dim THEN Ones ELSE Unit(j + 1)

generate_embeddings(texts) == [n \in 1..Len(texts) |-> Embed(texts[n])]

\* The metadata record upload_document builds for a chunk (filename and
\* collection are carried along unread by the storage engine and left out).
Metadata(t) == [document_id |-> t[1], chunk_index |-> t[2], text |-> t]

\* the chunks of document d
Chunks(d) == [i \in 1..NChunks(d) |-> <<d, i - 1>>]

RECURSIVE SumSq(_, _, _)
SumSq(u, v, i) ==
    IF i > Len(u) THEN 0
    ELSE (u[i] - v[i]) * (u[i] - v[i]) + SumSq(u, v, i + 1)

\* squared L2 distance of IndexFlatL2
L2Sqr(u, v) == SumSq(u, v, 1)

----------------------------------------------------------------------------
(* VectorStore *)

\* VectorStore._create_new_index: the three stores of a fresh instance
create_new_index ==
    [index |-> <<>>, metadata_store |-> <<>>, document_store |-> <<>>]

NotCached == [cached |-> FALSE, vs |-> create_new_index]
Cached(vs) == [cached |-> TRUE, vs |-> vs]

\* An artifact on disk is absent, unreadable (a write that stopped midway)
\* or holds what was written.
AbsentIndex == [st |-> "absent", vectors |-> <<>>]
AbsentPkl == [st |-> "absent", metadata |-> <<>>, documents |-> <<>>]
CorruptPkl == [st |-> "corrupt", metadata |-> <<>>, documents |-> <<>>]
NoFiles == [index |-> AbsentIndex, pkl |-> AbsentPkl]

\* VectorStore._load_index
load_index(files) ==
    IF files.index.st # "absent" /\ files.pkl.st # "absent"
    THEN IF files.index.st = "corrupt" \/ files.pkl.st = "corrupt"
         THEN create_new_index
         ELSE [index |-> files.index.vectors,
               metadata_store |-> files.pkl.metadata,
               document_store |-> files.pkl.documents]
    ELSE create_new_index

\* Points of VectorStore._save_index and delete_collection at which the
\* disk may fail: "none" is a run without fault.
SaveFaults == {"open_index", "pkl_open", "pkl_write"}
RemoveFaults == {"rm_index", "rm_pkl"}

\* What a caller gets back when the disk failed: the exception of
\* _save_index or of delete_collection, propagated unchanged.
PersistenceFailure == {"SaveFailed", "RemoveFailed"}

\* A _save_index that dumps the metadata records and leaves the texts of
\* the sidecar as they were.
save_index_without_documents(vs, files, fault) ==
    IF fault \in SaveFaults THEN [files |-> files, ok |-> FALSE]
    ELSE [files |-> [index |-> [st |-> "ok", vectors |-> vs.index],
                     pkl |-> [st |-> "ok", metadata |-> vs.metadata_store,
                              documents |-> files.pkl.documents]],
          ok |-> TRUE]

\* VectorStore._save_index: the files after the call and whether it returned
\* (ok) or raised.
save_index(vs, files, fault) ==
    LET newIndex == [st |-> "ok", vectors |-> vs.index]
        newPkl == [st |-> "ok", metadata |-> vs.metadata_store,
                   documents |-> vs.document_store]
    IN  CASE fault = "open_index" -> [files |-> files, ok |-> FALSE]
          [] fault = "pkl_open" ->
                [files |-> [files EXCEPT !.index = newIndex], ok |-> FALSE]
          [] fault = "pkl_write" ->
                [files |-> [index |-> newIndex, pkl |-> CorruptPkl], ok |-> FALSE]
          [] OTHER -> [files |-> [index |-> newIndex, pkl |-> newPkl], ok |-> TRUE]

\* An add_documents that undoes its appends when the save fails.
add_documents_rollback(vs, files, texts, embeddings, metadata, fault) ==
    IF embeddings = <<>> \/ \E i \in 1..Len(embeddings) : Len(embeddings[i]) # Dim
    THEN [vs |-> vs, files |-> files, result |-> "DimensionMismatch"]
    ELSE LET vs2 == [index |-> vs.index \o embeddings,
                     metadata_store |-> vs.metadata_store \o metadata,
                     document_store |-> vs.document_store \o texts]
             s == save_index(vs2, files, fault)
         IN  IF s.ok THEN [vs |-> vs2, files |-> s.files, result |-> "ok"]
             ELSE [vs |-> vs, files |-> s.files, result |-> "SaveFailed"]

\* An add_documents that appends the texts and the metadata records before
\* it hands the vectors to the index.
add_documents_late_check(vs, files, texts, embeddings, metadata, fault) ==
    LET vs1 == [vs EXCEPT !.metadata_store = @ \o metadata,
                          !.document_store = @ \o texts]
    IN  IF embeddings = <<>> \/ \E i \in 1..Len(embeddings) : Len(embeddings[i]) # Dim
        THEN [vs |-> vs1, files |-> files, result |-> "DimensionMismatch"]
        ELSE LET vs2 == [vs1 EXCEPT !.index = @ \o embeddings]
                 s == save_index(vs2, files, fault)
             IN  [vs |-> vs2, files |-> s.files,
                  result |-> IF s.ok THEN "ok" ELSE "SaveFailed"]

\* VectorStore.add_documents: the instance and the files after the call and
\* its outcome.  np.array raises on a ragged or empty batch and index.add on
\* a batch of another dimension, both before anything is appended.
add_documents(vs, files, texts, embeddings, metadata, fault) ==
    IF embeddings = <<>> \/ \E i \in 1..Len(embeddings) : Len(embeddings[i]) # Dim
    THEN [vs |-> vs, files |-> files, result |-> "DimensionMismatch"]
    ELSE LET vs2 == [index |-> vs.index \o embeddings,
                     metadata_store |-> vs.metadata_store \o metadata,
                     document_store |-> vs.document_store \o texts]
             s == save_index(vs2, files, fault)
         IN  [vs |-> vs2, files |-> s.files,
              result |-> IF s.ok THEN "ok" ELSE "SaveFailed"]

\* VectorStore.get_collection_count
get_collection_count(vs) == Len(vs.index)

\* the names in the order sorted() puts them
NameOrder == <<"a", "b">>

\* A listing that reads the cache of the process instead of the directory.
list_collections_cached(files) ==
    SelectSeq(NameOrder, LAMBDA c : vector_stores[c].cached)

\* VectorStore.list_collections: the names with a file <name>.index
list_collections(files) ==
    SelectSeq(NameOrder, LAMBDA c : files[c].index.st # "absent")

\* VectorStore.get_collection_info: each listed name with the count of a new
\* instance loaded from its artifacts
get_collection_info(files) ==
    LET names == list_collections(files)
    IN  [n \in 1..Len(names) |->
            [name |-> names[n],
             count |-> get_collection_count(load_index(files[names[n]]))]]

\* IndexFlatL2.search: the n nearest positions, nearest first, equal
\* distances by ascending position.
search(index, q, n) ==
    LET Before(i, j) ==
            \/ L2Sqr(index[i], q) < L2Sqr(index[j], q)
            \/ L2Sqr(index[i], q) = L2Sqr(index[j], q) /\ i < j
        Rank(j) == Cardinality({i \in 1..Len(index) : Before(i, j)})
    IN  [r \in 1..n |-> CHOOSE j \in 1..Len(index) : Rank(j) = r - 1]

\* A query that hands an empty index to the search as well.
query_without_empty_check(vs, q, k) ==
    IF Min(k, Len(vs.index)) <= 0
    THEN [result |-> "InternalError", hits |-> <<>>]
    ELSE [result |-> "ok",
          hits |-> [r \in 1..Min(k, Len(vs.index)) |->
                      LET p == search(vs.index, q, r)[r]
                      IN  [text |-> vs.document_store[p],
                           metadata |-> vs.metadata_store[p],
                           distance |-> L2Sqr(vs.index[p], q)]]]

\* VectorStore.query: positions are projected through document_store and
\* metadata_store; a position past the end of either raises IndexError.
\* n_results = min(k, ntotal) goes to index.search unchecked, which rejects
\* a number of neighbours that is not positive.
query(vs, q, k) ==
    IF Len(vs.index) = 0 THEN [result |-> "ok", hits |-> <<>>]
    ELSE IF Min(k, Len(vs.index)) <= 0
    THEN [result |-> "InternalError", hits |-> <<>>]
    ELSE LET n == Min(k, Len(vs.index))
             pos == search(vs.index, q, n)
         IN  IF \E r \in 1..n : pos[r] > Len(vs.document_store)
                                 \/ pos[r] > Len(vs.metadata_store)
             THEN [result |-> "InternalError", hits |-> <<>>]
             ELSE [result |-> "ok",
                   hits |-> [r \in 1..n |->
                               [text |-> vs.document_store[pos[r]],
                                metadata |-> vs.metadata_store[pos[r]],
                                distance |-> L2Sqr(vs.index[pos[r]], q)]]]

\* VectorStore.delete_collection: os.remove of each artifact that exists
delete_collection(files, fault) ==
    CASE fault = "rm_index" /\ files.index.st # "absent" ->
            [files |-> files, ok |-> FALSE]
      [] fault = "rm_pkl" /\ files.pkl.st # "absent" ->
            [files |-> [files EXCEPT !.index = AbsentIndex], ok |-> FALSE]
      [] OTHER -> [files |-> NoFiles, ok |-> TRUE]

\* A reset_collection that removes the artifacts and writes none.
reset_collection_without_save(vs, files, fault) ==
    LET del == delete_collection(files, fault)
    IN  IF ~del.ok
        THEN [vs |-> vs, files |-> del.files, result |-> "RemoveFailed"]
        ELSE [vs |-> create_new_index, files |-> del.files, result |-> "ok"]

\* A reset_collection that keeps the stores of the instance.
reset_collection_without_new_index(vs, files, fault) ==
    LET del == delete_collection(files, fault)
    IN  IF ~del.ok
        THEN [vs |-> vs, files |-> del.files, result |-> "RemoveFailed"]
        ELSE LET s == save_index(vs, del.files, fault)
             IN  [vs |-> vs, files |-> s.files,
                  result |-> IF s.ok THEN "ok" ELSE "SaveFailed"]

\* VectorStore.reset_collection
reset_collection(vs, files, fault) ==
    LET del == delete_collection(files, fault)
    IN  IF ~del.ok
        THEN [vs |-> vs, files |-> del.files, result |-> "RemoveFailed"]
        ELSE LET s == save_index(create_new_index, del.files, fault)
             IN  [vs |-> create_new_index, files |-> s.files,
                  result |-> IF s.ok THEN "ok" ELSE "SaveFailed"]

----------------------------------------------------------------------------
(* main.py *)

\* A get_vector_store that builds a new instance on every call.
get_vector_store_reload(c) == load_index(disk[c])

\* get_vector_store: the cached instance, or a new one loaded from disk
get_vector_store(c) ==
    IF vector_stores[c].cached THEN vector_stores[c].vs ELSE load_index(disk[c])

\* delete_document, lines 504-514: the positions of the chunks of d
indices_to_delete(vs, d) ==
    {i \in 1..Len(vs.metadata_store) : vs.metadata_store[i].document_id = d}

\* A delete_document that rebuilds also when no position remains.
rebuild_index_without_reset(vs, files, d, f1, f2) ==
    LET remaining_indices == (1..Len(vs.metadata_store)) \ indices_to_delete(vs, d)
    IN  IF \E i \in remaining_indices : i > Len(vs.index)
        THEN [vs |-> vs, files |-> files, result |-> "InternalError"]
        ELSE LET vs2 == [index |-> Pick(vs.index, remaining_indices, 1),
                         metadata_store |->
                             Pick(vs.metadata_store, remaining_indices, 1),
                         document_store |-> vs.document_store]
                 s == save_index(vs2, files, f2)
             IN  [vs |-> vs2, files |-> s.files,
                  result |-> IF s.ok THEN "ok" ELSE "SaveFailed"]

\* delete_document, lines 523-543: the index is rebuilt from the vectors at
\* the remaining positions and metadata_store is replaced, or the collection
\* is reset when nothing remains; then the instance is saved.  f1 is the
\* fault met by reset_collection, f2 the fault met by the final save.
rebuild_index(vs, files, d, f1, f2) ==
    LET remaining_indices == (1..Len(vs.metadata_store)) \ indices_to_delete(vs, d)
    IN  IF remaining_indices # {}
        THEN IF \E i \in remaining_indices : i > Len(vs.index)
             THEN \* index.reconstruct raises
                  [vs |-> vs, files |-> files, result |-> "InternalError"]
             ELSE LET vs2 == [index |-> Pick(vs.index, remaining_indices, 1),
                              metadata_store |->
                                  Pick(vs.metadata_store, remaining_indices, 1),
                              document_store |-> vs.document_store]
                      s == save_index(vs2, files, f2)
                  IN  [vs |-> vs2, files |-> s.files,
                       result |-> IF s.ok THEN "ok" ELSE "SaveFailed"]
        ELSE LET r == reset_collection(vs, files, f1)
             IN  IF r.result # "ok" THEN r
                 ELSE LET s == save_index(r.vs, r.files, f2)
                      IN  [vs |-> r.vs, files |-> s.files,
                           result |-> IF s.ok THEN "ok" ELSE "SaveFailed"]

\* A delete_document without its 404 for a document that has no chunk.
delete_document_unchecked(vs, files, d, f1, f2) ==
    rebuild_index(vs, files, d, f1, f2)

\* delete_document, on the instance get_vector_store returned: the instance
\* and the files after the call and its outcome.
delete_document(vs, files, d, f1, f2) ==
    IF indices_to_delete(vs, d) = {}
    THEN [vs |-> vs, files |-> files, result |-> "NotFound"]
    ELSE rebuild_index(vs, files, d, f1, f2)

----------------------------------------------------------------------------
(* TextChunker (backend/utils/text_chunker.py) *)

\* Longest text given to chunk_text.
MaxText == 5
\* Largest chunk_size (1000 in main.py:47, with chunk_overlap 200), scaled down.
MaxChunkSize == 3
\* Most chunks the fallback loop is followed for.
MaxChunks == 3

\* A letter, the full stop and the blank.  Every whitespace character is
\* turned into a blank by the first substitution of _clean_text, so the blank
\* stands for all of them.
Chars == {"x", ".", " "}
Texts == UNION {[1..n -> Chars] : n \in 0..MaxText}

\* TextChunker(chunk_size, chunk_overlap) with 0 <= chunk_overlap < chunk_size
Configurations ==
    {cfg \in [chunk_size : 1..MaxChunkSize, chunk_overlap : 0..MaxChunkSize] :
        cfg.chunk_overlap < cfg.chunk_size}

\* _clean_text: every run of whitespace becomes one blank, and the blanks at
\* both ends are stripped.  No newline is left for the second substitution.
clean_text(raw) ==
    Pick(raw,
         {i \in 1..Len(raw) :
             \/ raw[i] # " "
             \/ /\ i > 1 /\ raw[i - 1] # " "
                /\ \E j \in (i + 1)..Len(raw) : raw[j] # " "},
         1)

\* A bound of a slice of a string of length n, as Python adjusts it.
SliceBound(i, n) == IF i < 0 THEN Max(i + n, 0) ELSE Min(i, n)

\* str.rfind(sub, start, end): the highest position (counted from 0) at which
\* sub lies within text[start:end], or -1.
rfind(text, sub, start, end) ==
    LET from == SliceBound(start, Len(text))
        to == SliceBound(end, Len(text))
        found == {i \in from..(to - Len(sub)) :
                     \A j \in 1..Len(sub) : text[i + j] = sub[j]}
    IN  IF found = {} THEN -1
        ELSE CHOOSE i \in found : \A j \in found : j <= i

\* _character_based_chunking, lines 82-94: where the chunk that begins at
\* start ends
chunk_end(text, start, chunk_size) ==
    LET end == start + chunk_size
        sentence_end == rfind(text, <<".", " ">>, start, end)
        space == rfind(text, <<" ">>, start, end)
    IN  IF end < Len(text)
        THEN IF sentence_end > start THEN sentence_end + 1
             ELSE IF space > start THEN space
             ELSE end
        ELSE end

\* _character_based_chunking, line 97: where the next chunk begins
next_start(text, start, chunk_size, chunk_overlap) ==
    LET end == chunk_end(text, start, chunk_size)
    IN  IF end < Len(text) THEN end - chunk_overlap ELSE end

\* no call of chunk_text is in progress
NotChunking ==
    [pc |-> "idle", text |-> <<>>, chunk_size |-> 1, chunk_overlap |-> 0,
     start |-> 0, chunks |-> 0]

\* chunk_text, lines 34-57: the cleaned text is one paragraph, hence one
\* chunk unless it is empty; the fallback is entered when there is no chunk
\* or the chunk is longer than 1.5 * chunk_size.
ChunkText(raw, cfg) ==
    LET text == clean_text(raw)
        chunks == IF text = <<>> THEN 0 ELSE 1
        fallback == chunks = 0 \/ 2 * Len(text) > 3 * cfg.chunk_size
    IN  /\ chunker.pc = "idle"
        /\ chunker' = [pc |-> IF fallback THEN "loop" ELSE "return",
                       text |-> text,
                       chunk_size |-> cfg.chunk_size,
                       chunk_overlap |-> cfg.chunk_overlap,
                       start |-> 0,
                       chunks |-> IF fallback THEN 0 ELSE chunks]
        /\ UNCHANGED <<vector_stores, disk, faults, gone, last, tasks>>

\* _character_based_chunking, lines 81-97: one pass of the while loop
ChunkIteration ==
    /\ chunker.pc = "loop"
    /\ chunker.start < Len(chunker.text)
    /\ chunker.chunks < MaxChunks
    /\ chunker' = [chunker EXCEPT
                      !.start = next_start(chunker.text, chunker.start,
                                           chunker.chunk_size, chunker.chunk_overlap),
                      !.chunks = @ + 1]
    /\ UNCHANGED <<vector_stores, disk, faults, gone, last, tasks>>

\* _character_based_chunking, lines 81 and 99: the condition of the loop is
\* false and the chunks are returned
ChunkLoopEnd ==
    /\ chunker.pc = "loop"
    /\ chunker.start >= Len(chunker.text)
    /\ chunker' = [chunker EXCEPT !.pc = "return"]
    /\ UNCHANGED <<vector_stores, disk, faults, gone, last, tasks>>

\* chunk_text, line 60: the chunks go back to upload_document (main.py:163)
ChunkReturn ==
    /\ chunker.pc = "return"
    /\ chunker' = NotChunking
    /\ UNCHANGED <<vector_stores, disk, faults, gone, last, tasks>>

----------------------------------------------------------------------------
(* Calls *)

\* history: a reset of c that follows a successful reset of c
Again(op, c) ==
    op = "reset" /\ last.op = "reset" /\ last.result = "ok" /\ last.coll = c

\* The reply of a call; total is the sum a listing reports.
Reply(op, c, d, shape, q, k, result, hits) ==
    [op |-> op, coll |-> c, doc |-> d, shape |-> shape, q |-> q, k |-> k,
     result |-> result, hits |-> hits, total |-> 0, again |-> Again(op, c)]

\* the durable state of c is not the state a caller of c works on
Stale(c) == load_index(disk[c]) # get_vector_store(c)

\* num_results of a QueryRequest: any integer
Ks == {-1, 1, 2}
\* the texts of all documents, and the embeddings a query may carry
AllTexts == UNION {{Chunks(d)[i] : i \in 1..NChunks(d)} : d \in Docs}
Queries == {Embed(t) : t \in AllTexts}

\* The shapes of a batch handed to add_documents: as upload_document builds
\* it ("ok"), with one of the three lists a chunk short, with every vector
\* of another dimension, with one vector of another dimension.
Shapes == {"ok", "short_texts", "short_embeddings", "short_metadata",
           "wrong_dim", "ragged"}

BatchTexts(d, shape) ==
    IF shape = "short_texts" THEN Front(Chunks(d)) ELSE Chunks(d)

BatchEmbeddings(d, shape) ==
    LET e == generate_embeddings(Chunks(d))
        n == Len(e)
    IN  CASE shape = "short_embeddings" -> Front(e)
          [] shape = "wrong_dim" -> [i \in 1..n |-> e[i] \o <<0>>]
          [] shape = "ragged" -> [i \in 1..n |-> IF i = n THEN Front(e[i]) ELSE e[i]]
          [] OTHER -> e

BatchMetadata(d, shape) ==
    LET m == [i \in 1..NChunks(d) |-> Metadata(Chunks(d)[i])]
    IN  IF shape = "short_metadata" THEN Front(m) ELSE m

\* entries of the longest store of c
Size(c) ==
    LET vs == get_vector_store(c)
    IN  Max(Len(vs.index), Max(Len(vs.metadata_store), Len(vs.document_store)))

RECURSIVE Sum(_, _)
Sum(f, S) == IF S = {} THEN 0
             ELSE LET x == CHOOSE y \in S : TRUE IN f[x] + Sum(f, S \ {x})

Held == Sum([c \in Names |-> Size(c)], Names)

Nothing == [coll |-> "", doc |-> ""]

\* The requests the server holds at one time.
Tasks == {"t1", "t2"}

\* no request
Idle == [op |-> "", coll |-> "", doc |-> "", q |-> <<>>, k |-> 0,
         pc |-> "idle", keep |-> {}]

FaultBudget(f) == f = "none" \/ faults < MaxFaults
Spend(f) == IF f = "none" THEN 0 ELSE 1

\* get_vector_store(c).add_documents(texts, embeddings, metadata)
Add(op, c, d, shape, fault) ==
    LET vs == get_vector_store(c)
        texts == BatchTexts(d, shape)
        embeddings == BatchEmbeddings(d, shape)
        metadata == BatchMetadata(d, shape)
        r == add_documents(vs, disk[c], texts, embeddings, metadata, fault)
    IN  /\ FaultBudget(fault)
        /\ Held + NChunks(d) <= MaxStore
        /\ fault # "none" => r.result \in PersistenceFailure
        /\ vector_stores' = [vector_stores EXCEPT ![c] = Cached(r.vs)]
        /\ disk' = [disk EXCEPT ![c] = r.files]
        /\ faults' = faults + Spend(fault)
        /\ gone' = IF r.vs # vs /\ gone = [coll |-> c, doc |-> d] THEN Nothing ELSE gone
        /\ last' = Reply(op, c, d, shape, <<>>, 0, r.result, <<>>)
        /\ UNCHANGED <<tasks, chunker>>

\* POST /upload: document d into collection c
UploadDocument(c, d, fault) == Add("add", c, d, "ok", fault)

\* VectorStore.add_documents called with a batch of any shape
AddDocuments(c, d, shape, fault) == Add("add", c, d, shape, fault)

\* POST /query
QueryDocuments(c, q, k) ==
    LET vs == get_vector_store(c)
        r == query(vs, q, k)
    IN  /\ vector_stores' = [vector_stores EXCEPT ![c] = Cached(vs)]
        /\ last' = Reply("query", c, "", "", q, k, r.result, r.hits)
        /\ UNCHANGED <<disk, faults, gone, tasks, chunker>>

\* DELETE /collections/{c}/documents/{d}
DeleteDocument(c, d, f1, f2) ==
    LET vs == get_vector_store(c)
        r == delete_document(vs, disk[c], d, f1, f2)
    IN  /\ f1 = "none" \/ f2 = "none"
        /\ FaultBudget(f1) /\ FaultBudget(f2)
        /\ (f1 # "none" \/ f2 # "none") => r.result \in PersistenceFailure
        /\ vector_stores' = [vector_stores EXCEPT ![c] = Cached(r.vs)]
        /\ disk' = [disk EXCEPT ![c] = r.files]
        /\ faults' = faults + Spend(f1) + Spend(f2)
        /\ gone' = IF r.result = "ok" THEN [coll |-> c, doc |-> d] ELSE gone
        /\ last' = Reply("delete", c, d, "", <<>>, 0, r.result, <<>>)
        /\ UNCHANGED <<tasks, chunker>>

\* A removal that empties the cache: vector_stores.clear()
evict_all(c) == [n \in Names |-> NotCached]

\* del vector_stores[c]
evict(c) == [vector_stores EXCEPT ![c] = NotCached]

\* DELETE /collections/{c}: reset, then drop the instance from the cache
DeleteCollection(c, fault) ==
    LET vs == get_vector_store(c)
        r == reset_collection(vs, disk[c], fault)
    IN  /\ FaultBudget(fault)
        /\ fault # "none" => r.result \in PersistenceFailure
        /\ vector_stores' = IF r.result = "ok" THEN evict(c)
                             ELSE [vector_stores EXCEPT ![c] = Cached(r.vs)]
        /\ disk' = [disk EXCEPT ![c] = r.files]
        /\ faults' = faults + Spend(fault)
        /\ last' = Reply("reset", c, "", "", <<>>, 0, r.result, <<>>)
        /\ UNCHANGED <<gone, tasks, chunker>>

\* delete_all_documents, lines 308-311: every listed collection is fetched
\* through the cache and reset, in the order of the listing; the disk fails
\* with `fault` at the collection number `at`, which ends the loop.
RECURSIVE reset_each(_, _, _, _, _, _)
reset_each(names, i, stores, files, fault, at) ==
    IF i > Len(names) THEN [stores |-> stores, files |-> files, result |-> "ok"]
    ELSE LET c == names[i]
             vs == IF stores[c].cached THEN stores[c].vs ELSE load_index(files[c])
             r == reset_collection(vs, files[c], IF i = at THEN fault ELSE "none")
             stores2 == [stores EXCEPT ![c] = Cached(r.vs)]
             files2 == [files EXCEPT ![c] = r.files]
         IN  IF r.result # "ok"
             THEN [stores |-> stores2, files |-> files2, result |-> r.result]
             ELSE reset_each(names, i + 1, stores2, files2, fault, at)

\* A delete_all_documents that leaves the cache as the loop left it.
delete_all_without_clear(stores, files, fault, at) ==
    reset_each(list_collections(files), 1, stores, files, fault, at)

\* delete_all_documents without a collection, lines 308-312: the loop, then
\* vector_stores.clear()
delete_all(stores, files, fault, at) ==
    LET r == reset_each(list_collections(files), 1, stores, files, fault, at)
    IN  IF r.result = "ok"
        THEN [r EXCEPT !.stores = [n \in Names |-> NotCached]]
        ELSE r

\* DELETE /documents (with a collection it is DeleteCollection)
DeleteAll(fault, at) ==
    LET r == delete_all(vector_stores, disk, fault, at)
    IN  /\ FaultBudget(fault)
        /\ fault # "none" => r.result \in PersistenceFailure
        /\ fault = "none" => at = 1
        /\ vector_stores' = r.stores
        /\ disk' = r.files
        /\ faults' = faults + Spend(fault)
        /\ last' = Reply("delete_all", "", "", "", <<>>, 0, r.result, <<>>)
        /\ UNCHANGED <<gone, tasks, chunker>>

\* VectorStore.reset_collection on the instance of c, which stays cached
ResetCollection(c, fault) ==
    LET vs == get_vector_store(c)
        r == reset_collection(vs, disk[c], fault)
    IN  /\ FaultBudget(fault)
        /\ fault # "none" => r.result \in PersistenceFailure
        /\ vector_stores' = [vector_stores EXCEPT ![c] = Cached(r.vs)]
        /\ disk' = [disk EXCEPT ![c] = r.files]
        /\ faults' = faults + Spend(fault)
        /\ last' = Reply("reset", c, "", "", <<>>, 0, r.result, <<>>)
        /\ UNCHANGED <<gone, tasks, chunker>>

\* GET /collections/{c}: the count of the instance of c
CollectionInfo(c) ==
    LET vs == get_vector_store(c)
    IN  /\ vector_stores' = [vector_stores EXCEPT ![c] = Cached(vs)]
        /\ last' = [Reply("count", c, "", "", <<>>, 0, "ok", <<>>)
                        EXCEPT !.total = get_collection_count(vs)]
        /\ UNCHANGED <<disk, faults, gone, tasks, chunker>>

\* VectorStore.list_collections on the persist directory
ListCollections ==
    /\ last' = Reply("list", "", "", "", <<>>, 0, "ok", list_collections(disk))
    /\ UNCHANGED <<vector_stores, disk, faults, gone, tasks, chunker>>

\* GET /collections: every listed name with its count, and the sum
InfoAll ==
    LET info == get_collection_info(disk)
    IN  /\ last' = [Reply("info", "", "", "", <<>>, 0, "ok", info)
                        EXCEPT !.total = Sum([n \in 1..Len(info) |-> info[n].count],
                                             1..Len(info))]
        /\ UNCHANGED <<vector_stores, disk, faults, gone, tasks, chunker>>

\* The process stops and starts again: vector_stores = {} (main.py:52)
Restart ==
    /\ \E c \in Names : vector_stores[c].cached
    /\ vector_stores' = [c \in Names |-> NotCached]
    /\ last' = Reply("restart", "", "", "", <<>>, 0, "ok", <<>>)
    /\ UNCHANGED <<disk, faults, gone, tasks, chunker>>

Init ==
    /\ vector_stores = [c \in Names |-> NotCached]
    /\ disk = [c \in Names |-> NoFiles]
    /\ faults = 0
    /\ gone = Nothing
    /\ last = Reply("start", "", "", "", <<>>, 0, "ok", <<>>)
    /\ tasks = [t \in Tasks |-> Idle]
    /\ chunker = NotChunking

NoFault == {"none"}
AnyFault == NoFault \cup SaveFaults \cup RemoveFaults

\* The calls on the collections N, with the disk failing at the points F.
Upload(N, F) ==
    \E c \in N, d \in Docs, f \in F \ RemoveFaults : UploadDocument(c, d, f)
AddAny(N, F) ==
    \E c \in N, d \in Docs, sh \in Shapes, f \in F \ RemoveFaults :
        AddDocuments(c, d, sh, f)
Query(N) == \E c \in N, q \in Queries, k \in Ks : QueryDocuments(c, q, k)
Delete(N, F) ==
    \E c \in N, d \in Docs, f1 \in F, f2 \in F \ RemoveFaults :
        DeleteDocument(c, d, f1, f2)
DropCollection(N, F) == \E c \in N, f \in F : DeleteCollection(c, f)
Reset(N, F) == \E c \in N, f \in F : ResetCollection(c, f)

\* The collection the specifications below work on.
OneName == {"a"}

\* The service as its handlers drive it, on a disk that may fail.
Next ==
    \/ Upload(OneName, AnyFault)
    \/ Query(OneName)
    \/ Delete(OneName, AnyFault)
    \/ DropCollection(OneName, AnyFault)
    \/ Restart

Spec == Init /\ [][Next]_vars

\* One VectorStore driven directly with batches of every shape, on a disk
\* that does not fail.
NextApi ==
    \/ AddAny(OneName, NoFault)
    \/ Query(OneName)
    \/ Delete(OneName, NoFault)
    \/ Reset(OneName, NoFault)
    \/ Restart

SpecApi == Init /\ [][NextApi]_vars

\* The registry: uploads and resets on two collections, with the listings;
\* the disk may fail while an artifact is saved.
NextRegistry ==
    \/ Upload(Names, NoFault \cup SaveFaults)
    \/ DropCollection(Names, NoFault)
    \/ \E c \in Names : CollectionInfo(c)
    \/ ListCollections
    \/ InfoAll
    \/ \E f \in AnyFault, at \in 1..Len(NameOrder) : DeleteAll(f, at)
    \/ Restart

SpecRegistry == Init /\ [][NextRegistry]_vars

\* Two collections side by side, driven by the handlers on a disk that does
\* not fail.
NextPartitions ==
    \/ Upload(Names, NoFault)
    \/ Query(Names)
    \/ Delete(Names, NoFault)
    \/ DropCollection(Names, NoFault)

SpecPartitions == Init /\ [][NextPartitions]_vars

\* chunk_text on every text and every configuration.
NextChunker ==
    \/ \E raw \in Texts, cfg \in Configurations : ChunkText(raw, cfg)
    \/ ChunkIteration
    \/ ChunkLoopEnd
    \/ ChunkReturn

SpecChunker == Init /\ [][NextChunker]_vars

----------------------------------------------------------------------------
(* The event loop *)

\* Every statement a point at which another handler may run.
AwaitPointsEverywhere ==
    {"add_index", "add_texts", "add_metadata", "scan", "set_index",
     "set_metadata", "rm_index", "rm_pkl", "new_index", "reset_write_index",
     "reset_write_pkl", "write_index", "write_pkl", "evict", "search"}

\* The statements at which a handler gives the thread back to the event
\* loop.  Every handler of main.py is a coroutine without an await
\* expression, and uvicorn.run starts one process with one loop.
AwaitPoints == {}

\* the handler of t has started and has not returned
Running(t) == tasks[t].pc \notin {"idle", "pending"}

\* The thread of the loop is free for the handler of t: every other handler
\* has not started, has returned, or waits at an await.
Runs(t) ==
    \A u \in Tasks \ {t} : ~Running(u) \/ tasks[u].pc \in AwaitPoints

\* A request reaches the server and waits for the loop.
Arrive(t, op, c, d, q, k) ==
    /\ tasks[t].pc = "idle"
    /\ tasks' = [tasks EXCEPT ![t] = [op |-> op, coll |-> c, doc |-> d, q |-> q,
                                      k |-> k, pc |-> "pending", keep |-> {}]]
    /\ UNCHANGED <<vector_stores, disk, faults, gone, last, chunker>>

\* The handler of t returns.
Return(t, result, hits) ==
    LET task == tasks[t]
    IN  /\ tasks' = [tasks EXCEPT ![t] = Idle]
        /\ last' = Reply(task.op, task.coll, task.doc,
                         IF task.op = "add" THEN "ok" ELSE "",
                         task.q, task.k, result, hits)

\* The loop starts the handler of t, which calls get_vector_store.
StartHandler(t) ==
    LET task == tasks[t]
        c == task.coll
    IN  /\ task.pc = "pending" /\ Runs(t)
        /\ task.op = "add" => Held + NChunks(task.doc) <= MaxStore
        /\ vector_stores' = [vector_stores EXCEPT ![c] = Cached(get_vector_store(c))]
        /\ tasks' = [tasks EXCEPT ![t].pc =
                        CASE task.op = "add" -> "add_index"
                          [] task.op = "delete" -> "scan"
                          [] task.op = "reset" -> "rm_index"
                          [] OTHER -> "search"]
        /\ UNCHANGED <<disk, faults, gone, last, chunker>>

\* add_documents, lines 128-135: index.add, document_store.extend,
\* metadata_store.extend
AddStep(t) ==
    LET task == tasks[t]
        c == task.coll
        vs == vector_stores[c].vs
        texts == Chunks(task.doc)
    IN  /\ task.pc \in {"add_index", "add_texts", "add_metadata"} /\ Runs(t)
        /\ vector_stores' = [vector_stores EXCEPT ![c].vs =
              CASE task.pc = "add_index" ->
                      [vs EXCEPT !.index = @ \o generate_embeddings(texts)]
                [] task.pc = "add_texts" ->
                      [vs EXCEPT !.document_store = @ \o texts]
                [] OTHER ->
                      [vs EXCEPT !.metadata_store =
                                    @ \o [i \in 1..Len(texts) |-> Metadata(texts[i])]]]
        /\ tasks' = [tasks EXCEPT ![t].pc =
                        CASE task.pc = "add_index" -> "add_texts"
                          [] task.pc = "add_texts" -> "add_metadata"
                          [] OTHER -> "write_index"]
        /\ UNCHANGED <<disk, faults, gone, last, chunker>>

\* delete_document, lines 501-526: the 404, or the positions that remain
Scan(t) ==
    LET task == tasks[t]
        vs == vector_stores[task.coll].vs
        keep == (1..Len(vs.metadata_store)) \ indices_to_delete(vs, task.doc)
    IN  /\ task.pc = "scan" /\ Runs(t)
        /\ IF indices_to_delete(vs, task.doc) = {}
           THEN Return(t, "NotFound", <<>>)
           ELSE /\ tasks' = [tasks EXCEPT ![t].keep = keep,
                                          ![t].pc = IF keep # {} THEN "set_index"
                                                    ELSE "rm_index"]
                /\ UNCHANGED last
        /\ UNCHANGED <<vector_stores, disk, faults, gone, chunker>>

\* delete_document, lines 528-537: the new index becomes the index of the
\* instance, then the remaining records become its metadata_store
RebuildStep(t) ==
    LET task == tasks[t]
        c == task.coll
        vs == vector_stores[c].vs
    IN  /\ task.pc \in {"set_index", "set_metadata"} /\ Runs(t)
        /\ IF task.pc = "set_index" /\ \E i \in task.keep : i > Len(vs.index)
           THEN /\ Return(t, "InternalError", <<>>)
                /\ UNCHANGED vector_stores
           ELSE /\ vector_stores' = [vector_stores EXCEPT ![c].vs =
                      IF task.pc = "set_index"
                      THEN [vs EXCEPT !.index = Pick(vs.index, task.keep, 1)]
                      ELSE [vs EXCEPT !.metadata_store =
                                         Pick(vs.metadata_store, task.keep, 1)]]
                /\ tasks' = [tasks EXCEPT ![t].pc = IF task.pc = "set_index"
                                                    THEN "set_metadata"
                                                    ELSE "write_index"]
                /\ UNCHANGED last
        /\ UNCHANGED <<disk, faults, gone, chunker>>

\* reset_collection, lines 215-216: the two os.remove of delete_collection,
\* then _create_new_index
ResetStep(t) ==
    LET task == tasks[t]
        c == task.coll
    IN  /\ task.pc \in {"rm_index", "rm_pkl", "new_index"} /\ Runs(t)
        /\ disk' = [disk EXCEPT ![c] =
              CASE task.pc = "rm_index" -> [@ EXCEPT !.index = AbsentIndex]
                [] task.pc = "rm_pkl" -> [@ EXCEPT !.pkl = AbsentPkl]
                [] OTHER -> @]
        /\ vector_stores' = [vector_stores EXCEPT ![c].vs =
              IF task.pc = "new_index" THEN create_new_index ELSE @]
        /\ tasks' = [tasks EXCEPT ![t].pc =
                        CASE task.pc = "rm_index" -> "rm_pkl"
                          [] task.pc = "rm_pkl" -> "new_index"
                          [] OTHER -> "reset_write_index"]
        /\ UNCHANGED <<faults, gone, last, chunker>>

\* _save_index, lines 96-101: the index artifact, then the sidecar; called
\* by reset_collection and as the last statement of add_documents and of
\* delete_document.
SaveStep(t) ==
    LET task == tasks[t]
        c == task.coll
        vs == vector_stores[c].vs
        s == save_index(vs, disk[c], "none").files
    IN  /\ task.pc \in {"reset_write_index", "reset_write_pkl",
                        "write_index", "write_pkl"} /\ Runs(t)
        /\ disk' = [disk EXCEPT ![c] =
              IF task.pc \in {"reset_write_index", "write_index"}
              THEN [@ EXCEPT !.index = s.index]
              ELSE [@ EXCEPT !.pkl = s.pkl]]
        /\ IF task.pc = "write_pkl"
           THEN /\ Return(t, "ok", <<>>)
                /\ gone' = CASE task.op = "delete" -> [coll |-> c, doc |-> task.doc]
                             [] task.op = "add" /\ gone = [coll |-> c, doc |-> task.doc]
                                  -> Nothing
                             [] OTHER -> gone
           ELSE /\ tasks' = [tasks EXCEPT ![t].pc =
                      CASE task.pc = "reset_write_index" -> "reset_write_pkl"
                        [] task.pc = "write_index" -> "write_pkl"
                        [] task.op = "reset" -> "evict"
                        [] OTHER -> "write_index"]
                /\ UNCHANGED <<gone, last>>
        /\ UNCHANGED <<vector_stores, faults, chunker>>

\* DELETE /collections/{c}, lines 391-395: del vector_stores[c]
Evict(t) ==
    LET task == tasks[t]
    IN  /\ task.pc = "evict" /\ Runs(t)
        /\ vector_stores' = evict(task.coll)
        /\ Return(t, "ok", <<>>)
        /\ UNCHANGED <<disk, faults, gone, chunker>>

\* POST /query, lines 229-292: the search and its projection
Search(t) ==
    LET task == tasks[t]
        r == query(vector_stores[task.coll].vs, task.q, task.k)
    IN  /\ task.pc = "search" /\ Runs(t)
        /\ Return(t, r.result, r.hits)
        /\ UNCHANGED <<vector_stores, disk, faults, gone, chunker>>

\* The requests on the collections N.
Request(N) ==
    \E t \in Tasks, c \in N :
        \/ \E d \in Docs : Arrive(t, "add", c, d, <<>>, 0)
        \/ \E d \in Docs : Arrive(t, "delete", c, d, <<>>, 0)
        \/ Arrive(t, "reset", c, "", <<>>, 0)
        \/ \E q \in Queries : Arrive(t, "query", c, "", q, 1)

\* The handlers statement by statement, as the event loop runs them.
NextLoop ==
    \/ Request(OneName)
    \/ \E t \in Tasks : StartHandler(t)
    \/ \E t \in Tasks : AddStep(t)
    \/ \E t \in Tasks : Scan(t)
    \/ \E t \in Tasks : RebuildStep(t)
    \/ \E t \in Tasks : ResetStep(t)
    \/ \E t \in Tasks : SaveStep(t)
    \/ \E t \in Tasks : Evict(t)
    \/ \E t \in Tasks : Search(t)

SpecLoop == Init /\ [][NextLoop]_vars

----------------------------------------------------------------------------
(* Properties *)

Mutating == {"add", "delete", "reset"}

\* the instance of c a caller works on, after the call that left `last`
Instance(c) == vector_stores[c].vs

\* Positions of the metadata records of vs that do not belong to document d.
Retained(vs, d) ==
    {i \in 1..Len(vs.metadata_store) : vs.metadata_store[i].document_id # d}

\* Position p of vs holds one chunk: its vector, its metadata record and its
\* text are those upload_document derives from one text.
OneChunk(vs, p) ==
    /\ p <= Len(vs.index) /\ p <= Len(vs.metadata_store) /\ p <= Len(vs.document_store)
    /\ vs.metadata_store[p] = Metadata(vs.document_store[p])
    /\ vs.index[p] = Embed(vs.document_store[p])

\* C1: in every cached collection the number of vectors in the index, the
\* number of metadata records and count() are equal.
C1_Alignment ==
    \A c \in Names :
        vector_stores[c].cached =>
            /\ Len(Instance(c).index) = Len(Instance(c).metadata_store)
            /\ get_collection_count(Instance(c)) = Len(Instance(c).metadata_store)

\* C2: once delete_document(d) succeeded on a collection, no hit of a later
\* query on that collection is a chunk of d, by its metadata record or by
\* its text (until d is added to the collection again).
C2_DeleteThenQueryExclusion ==
    (last.op = "query" /\ last.result = "ok" /\ gone.coll = last.coll) =>
        \A r \in 1..Len(last.hits) :
            /\ last.hits[r].metadata.document_id # gone.doc
            /\ last.hits[r].text[1] # gone.doc

\* C3: a delete_document(d) that succeeds on a collection holding chunks of
\* d and of other documents leaves count() at the old count less the number
\* of chunks of d, and the surviving vectors, metadata records and texts are
\* the old ones at the retained positions, in their old order.
C3_RebuildPreservesSurvivors ==
    [][(last'.op = "delete" /\ last'.result = "ok") =>
        LET c == last'.coll
            old == get_vector_store(c)
            new == vector_stores'[c].vs
            keep == Retained(old, last'.doc)
        IN  keep # {} =>
              /\ get_collection_count(new)
                   = get_collection_count(old) - (Len(old.metadata_store) - Cardinality(keep))
              /\ new.index = Pick(old.index, keep, 1)
              /\ new.metadata_store = Pick(old.metadata_store, keep, 1)
              /\ new.document_store = Pick(old.document_store, keep, 1)]_vars

\* C4: every hit of a query is the text and the metadata record of the chunk
\* whose vector the search returned at that rank.
C4_ConsistentTriples ==
    (last.op = "query" /\ last.result = "ok") =>
        LET vs == Instance(last.coll)
            pos == search(vs.index, last.q, Len(last.hits))
        IN  \A r \in 1..Len(last.hits) :
                /\ last.hits[r].metadata = vs.metadata_store[pos[r]]
                /\ last.hits[r].metadata = Metadata(last.hits[r].text)
                /\ vs.index[pos[r]] = Embed(last.hits[r].text)

\* C5: after a successful add, delete_document or reset the sidecar of the
\* collection holds as many metadata records and as many texts as the
\* persisted index holds vectors, and position by position they are one chunk.
C5_SidecarAligned ==
    (last.op \in Mutating /\ last.result = "ok") =>
        LET f == disk[last.coll]
            onDisk == [index |-> f.index.vectors, metadata_store |-> f.pkl.metadata,
                       document_store |-> f.pkl.documents]
        IN  /\ f.index.st = "ok" /\ f.pkl.st = "ok"
            /\ Len(f.pkl.metadata) = Len(f.index.vectors)
            /\ Len(f.pkl.documents) = Len(f.index.vectors)
            /\ \A p \in 1..Len(f.index.vectors) : OneChunk(onDisk, p)

\* C6: when add, delete_document or reset has returned successfully, both
\* artifacts are written and a fresh instance loaded from them has the
\* vectors, metadata records and texts of the cached instance, in the same
\* order (those of an empty collection after a reset).
C6_DurableBeforeReturn ==
    (last.op \in Mutating /\ last.result = "ok") =>
        LET c == last.coll
            fresh == load_index(disk[c])
        IN  /\ disk[c].index.st = "ok" /\ disk[c].pkl.st = "ok"
            /\ vector_stores[c].cached => fresh = Instance(c)
            /\ last.op = "reset" => fresh = create_new_index

C6_Witness ==
    /\ last.op = "delete" /\ last.result = "ok"
    /\ vector_stores[last.coll].cached
    /\ Len(Instance(last.coll).index) > 0

\* C7: delete_document(d) on a collection without a metadata record of d
\* returns NotFound and leaves the vectors, metadata records and texts of
\* the collection and both its artifacts as they were.
C7_DeleteMissingIsNotFound ==
    [][(last'.op = "delete"
        /\ Retained(get_vector_store(last'.coll), last'.doc)
             = 1..Len(get_vector_store(last'.coll).metadata_store)) =>
        /\ last'.result = "NotFound"
        /\ vector_stores'[last'.coll].vs = get_vector_store(last'.coll)
        /\ disk' = disk]_vars

C7_Witness ==
    /\ last.op = "delete" /\ last.result = "NotFound"
    /\ Len(Instance(last.coll).metadata_store) > 0

ShortShapes == {"short_texts", "short_embeddings", "short_metadata"}

\* C8: add with texts, embeddings and metadata records of unequal lengths
\* fails with BatchLengthMismatch and appends nothing.
C8_BatchLengthMismatch ==
    [][(last'.op = "add" /\ last'.shape \in ShortShapes) =>
        /\ last'.result = "BatchLengthMismatch"
        /\ vector_stores'[last'.coll].vs = get_vector_store(last'.coll)]_vars

BadDimShapes == {"wrong_dim", "ragged"}

\* C10: add with a batch holding a vector whose length is not the index
\* dimension fails with DimensionMismatch and leaves the vectors, metadata
\* records and texts of the collection and its artifacts as they were.
C10_DimensionMismatch ==
    [][(last'.op = "add" /\ last'.shape \in BadDimShapes) =>
        /\ last'.result = "DimensionMismatch"
        /\ vector_stores'[last'.coll].vs = get_vector_store(last'.coll)
        /\ disk' = disk]_vars

C10_Witness ==
    /\ last.op = "add" /\ last.shape \in BadDimShapes
    /\ last.result = "DimensionMismatch"
    /\ Len(Instance(last.coll).index) > 0

\* Both artifacts of the collection exist and one of them cannot be read.
Unreadable(files) ==
    /\ files.index.st # "absent" /\ files.pkl.st # "absent"
    /\ files.index.st = "corrupt" \/ files.pkl.st = "corrupt"

\* C11: a call that makes the registry load a collection whose artifacts
\* cannot be read gets a PersistenceFailure, the registry caches no instance
\* for the name, and the unreadable artifacts stay as they are.
C11_LoadErrorSurfaced ==
    [][\A c \in Names :
        (last'.coll = c /\ ~vector_stores[c].cached /\ Unreadable(disk[c])) =>
            /\ last'.result \in PersistenceFailure
            /\ ~vector_stores'[c].cached
            /\ disk'[c] = disk[c]]_vars

\* the handler of t is an add, a delete_document or a reset in progress
Mutation(t) == Running(t) /\ tasks[t].op \in Mutating

\* C12: while the handler of an add, a delete_document or a reset on a
\* collection is between its first and its last statement, no other handler
\* on that collection, reading or mutating, is past its start.
C12_Serialized ==
    \A t \in Tasks, u \in Tasks :
        (t # u /\ tasks[t].coll = tasks[u].coll /\ Mutation(t)) => ~Running(u)

\* a delete_document has replaced the index and not yet the metadata, and
\* a query on the same collection waits for the loop
C12_Witness ==
    \E t \in Tasks, u \in Tasks :
        /\ tasks[t].op = "delete" /\ tasks[t].pc = "set_metadata"
        /\ Len(vector_stores[tasks[t].coll].vs.index)
             # Len(vector_stores[tasks[t].coll].vs.metadata_store)
        /\ tasks[u].op = "query" /\ tasks[u].pc = "pending"
        /\ tasks[u].coll = tasks[t].coll

\* the names of a listing, and the count a listing reports for c
Listed(names) == {names[n] : n \in 1..Len(names)}
CountOf(info, c) == (CHOOSE e \in {info[n] : n \in 1..Len(info)} : e.name = c).count

\* both artifacts of the collection are written and hold no entry
DurablyEmpty(files) ==
    /\ files.index = [st |-> "ok", vectors |-> <<>>]
    /\ files.pkl = [st |-> "ok", metadata |-> <<>>, documents |-> <<>>]

\* C13: after a reset that succeeded the collection has count 0 and no
\* metadata record and no text, both its artifacts exist and hold the empty
\* state, the name is listed and the listing reports count 0 for it.
C13_ResetIsDurablyEmpty ==
    (last.op = "reset" /\ last.result = "ok") =>
        LET c == last.coll
            vs == get_vector_store(c)
        IN  /\ get_collection_count(vs) = 0
            /\ vs.metadata_store = <<>> /\ vs.document_store = <<>>
            /\ DurablyEmpty(disk[c])
            /\ c \in Listed(list_collections(disk))
            /\ CountOf(get_collection_info(disk), c) = 0

\* a reset has succeeded on a collection a document had been deleted from
C13_Witness ==
    /\ last.op = "reset" /\ last.result = "ok"
    /\ gone.coll = last.coll
    /\ last.coll \in Listed(list_collections(disk))

\* C14: a reset that follows a successful reset of the same collection
\* succeeds, and leaves the instance and both artifacts as the first reset
\* left them: empty.
C14_ResetIdempotent ==
    [][\A c \in Names : (last'.op = "reset" /\ last'.coll = c /\ last'.again) =>
        /\ last'.result = "ok"
        /\ vector_stores[c].vs = create_new_index
        /\ vector_stores'[c].vs = vector_stores[c].vs
        /\ vector_stores'[c].cached = vector_stores[c].cached
        /\ disk'[c] = disk[c]
        /\ DurablyEmpty(disk'[c])]_vars

\* the second of two resets in a row has returned
C14_Witness ==
    /\ last.op = "reset" /\ last.again /\ last.result = "ok"
    /\ vector_stores[last.coll].cached

\* C15: a call on a name without artifacts and without cached instance
\* succeeds in getting an empty instance, which it caches; a call on a cached
\* name works on the cached instance, whatever the artifacts hold; and a
\* cached name stays cached until a reset through a handler (or the end of
\* the process).
C15_GetCachesInstance ==
    [][\A c \in Names :
        /\ (last'.op = "query" /\ last'.coll = c) =>
              /\ (~vector_stores[c].cached /\ disk[c] = NoFiles) =>
                    /\ last'.result = "ok" /\ last'.hits = <<>>
                    /\ vector_stores'[c] = Cached(create_new_index)
              /\ vector_stores[c].cached =>
                    /\ vector_stores'[c] = vector_stores[c]
                    /\ last'.hits = query(vector_stores[c].vs, last'.q, last'.k).hits
        /\ (vector_stores[c].cached /\ ~vector_stores'[c].cached) =>
              last'.op \in {"reset", "restart"}]_vars

\* a query has been answered from a cached instance that holds entries the
\* artifacts do not
C15_Witness ==
    /\ last.op = "query" /\ last.result = "ok" /\ last.hits # <<>>
    /\ vector_stores[last.coll].cached
    /\ Stale(last.coll)

\* C16: a listing holds each name that has an index artifact once, and no
\* other name, whatever the cache holds.
C16_ListIsDiskOnly ==
    last.op = "list" =>
        /\ Listed(last.hits) = {c \in Names : disk[c].index.st # "absent"}
        /\ Len(last.hits) = Cardinality(Listed(last.hits))

\* a listing leaves out a cached name that has no index artifact and holds
\* a name with artifacts that this process has not loaded
C16_Witness ==
    /\ last.op = "list"
    /\ \E c \in Names : vector_stores[c].cached /\ c \notin Listed(last.hits)
    /\ \E c \in Names : ~vector_stores[c].cached /\ c \in Listed(last.hits)

\* C17: the count a listing reports for a name is the count of the instance
\* the registry holds for that name, or would load for it, and the total is
\* the sum of the reported counts.
C17_InfoMatchesRegistry ==
    last.op = "info" =>
        /\ \A n \in 1..Len(last.hits) :
              last.hits[n].count
                 = get_collection_count(get_vector_store(last.hits[n].name))
        /\ last.total = Sum([n \in 1..Len(last.hits) |-> last.hits[n].count],
                            1..Len(last.hits))

\* C18: a query with k >= 1 on a collection of N entries returns min(k, N)
\* hits in order of non-decreasing distance, and no entry that is not
\* returned is nearer to the query than a returned one.
C18_NearestFirst ==
    (last.op = "query" /\ last.k >= 1) =>
        LET vs == Instance(last.coll)
            N == get_collection_count(vs)
            far == {last.hits[r].distance : r \in 1..Len(last.hits)}
            pos == search(vs.index, last.q, Len(last.hits))
            left == (1..N) \ {pos[r] : r \in 1..Len(last.hits)}
        IN  /\ last.result = "ok"
            /\ Len(last.hits) = Min(last.k, N)
            /\ \A r \in 1..Len(last.hits) - 1 :
                  last.hits[r].distance <= last.hits[r + 1].distance
            /\ \A p \in left, d \in far : L2Sqr(vs.index[p], last.q) >= d

\* C19: when the embedding of a query with k >= 1 is a vector the
\* collection stores, the first hit is the chunk stored with that vector at
\* the lowest such position (its metadata record and the text that record
\* was stored with), at distance 0.
C19_ExactMatchFirst ==
    LET vs == Instance(last.coll)
        same == {p \in 1..Len(vs.index) : vs.index[p] = last.q}
        first == CHOOSE p \in same : \A o \in same : p <= o
    IN  (last.op = "query" /\ last.k >= 1 /\ same # {}) =>
            /\ last.result = "ok"
            /\ last.hits # <<>>
            /\ last.hits[1].distance = 0
            /\ last.hits[1].metadata = vs.metadata_store[first]
            /\ last.hits[1].text = last.hits[1].metadata.text
            /\ Embed(last.hits[1].text) = last.q

\* C20: a query with k <= 0 on a collection that holds entries returns no
\* hit and no error.
C20_NonPositiveK ==
    (last.op = "query" /\ last.k <= 0
        /\ get_collection_count(Instance(last.coll)) > 0) =>
            /\ last.result = "ok"
            /\ last.hits = <<>>

\* C21: a query on a collection whose count is 0 returns no hit and no
\* error, for every embedding and every k, and leaves the stores of the
\* collection and its artifacts as they were.
C21_EmptyCollectionQuery ==
    [][\A c \in Names :
        (last'.op = "query" /\ last'.coll = c
            /\ get_collection_count(get_vector_store(c)) = 0) =>
                /\ last'.result = "ok"
                /\ last'.hits = <<>>
                /\ vector_stores'[c].vs = get_vector_store(c)
                /\ disk' = disk]_vars

\* a query with a k that is not positive has been answered on a collection
\* without entries
C21_Witness ==
    /\ last.op = "query" /\ last.k <= 0 /\ last.result = "ok"
    /\ get_collection_count(Instance(last.coll)) = 0

\* C22: a successful add of the m chunks of a document to a collection of N
\* entries puts vector, metadata record and text of the i-th chunk at
\* position N + i of the index, of the metadata and of the texts, and leaves
\* what the three held at the first N positions as it was.
C22_AddAppendsInOrder ==
    [][(last'.op = "add" /\ last'.shape = "ok" /\ last'.result = "ok") =>
        LET c == last'.coll
            old == get_vector_store(c)
            new == vector_stores'[c].vs
            N == get_collection_count(old)
            texts == Chunks(last'.doc)
            m == Len(texts)
            Appended(before, after, batch) ==
                /\ Len(after) = N + m
                /\ Len(before) >= N
                /\ \A i \in 1..N : after[i] = before[i]
                /\ \A i \in 1..m : after[N + i] = batch[i]
        IN  /\ Appended(old.index, new.index, generate_embeddings(texts))
            /\ Appended(old.metadata_store, new.metadata_store,
                        [i \in 1..m |-> Metadata(texts[i])])
            /\ Appended(old.document_store, new.document_store, texts)]_vars

\* C23: a delete_document(d) that succeeds on a collection whose metadata
\* records all belong to d leaves the instance and both artifacts as a reset
\* of that collection leaves them (no vector, no metadata record, no text,
\* both artifacts written empty), and the instance stays cached.
C23_DeleteAllChunksIsReset ==
    [][\A c \in Names :
        (last'.op = "delete" /\ last'.coll = c /\ last'.result = "ok"
            /\ Retained(get_vector_store(c), last'.doc) = {}) =>
                LET r == reset_collection(get_vector_store(c), disk[c], "none")
                IN  /\ vector_stores'[c] = Cached(r.vs)
                    /\ disk'[c] = r.files
                    /\ get_collection_count(vector_stores'[c].vs) = 0
                    /\ vector_stores'[c].vs.metadata_store = <<>>
                    /\ vector_stores'[c].vs.document_store = <<>>
                    /\ DurablyEmpty(disk'[c])]_vars

\* the delete_document of the only document of a collection has succeeded
C23_Witness ==
    /\ last.op = "delete" /\ last.result = "ok"
    /\ vector_stores[last.coll].cached
    /\ Instance(last.coll) = create_new_index
    /\ DurablyEmpty(disk[last.coll])

\* C24: whatever the artifacts of a collection hold, the instance
\* _load_index builds from them has as many metadata records and as many
\* texts as its index has vectors.
C24_LoadedIsAligned ==
    \A c \in Names :
        LET vs == load_index(disk[c])
        IN  /\ Len(vs.metadata_store) = Len(vs.index)
            /\ Len(vs.document_store) = Len(vs.index)

\* C25: an add, a query, a delete_document or a reset on one collection
\* leaves the cache entry, the three stores and both artifacts of every other
\* collection as they were.
C25_Partitions ==
    [][\A c \in Names, other \in Names :
        (last'.op \in Mutating \cup {"query"} /\ last'.coll = c /\ other # c) =>
            /\ vector_stores'[other] = vector_stores[other]
            /\ disk'[other] = disk[other]]_vars

\* a collection has been reset while the other one holds entries, in its
\* cached instance and in its artifacts
C25_Witness ==
    \E other \in Names :
        /\ last.op = "reset" /\ last.result = "ok" /\ last.coll # other
        /\ vector_stores[other].cached
        /\ Len(Instance(other).index) > 0
        /\ Len(disk[other].index.vectors) > 0

\* the total a listing of the artifacts reports
Aggregate(files) ==
    LET info == get_collection_info(files)
    IN  Sum([n \in 1..Len(info) |-> info[n].count], 1..Len(info))

\* C26: after the deletion of all collections has succeeded no name is
\* cached, the instance the registry gets for any name has count 0, and the
\* listing reports a total of 0.
C26_AllDeleted ==
    (last.op = "delete_all" /\ last.result = "ok") =>
        /\ \A c \in Names :
              /\ ~vector_stores[c].cached
              /\ get_collection_count(get_vector_store(c)) = 0
        /\ Aggregate(disk) = 0

\* all collections have been deleted with one name listed and one not
C26_Witness ==
    /\ last.op = "delete_all" /\ last.result = "ok"
    /\ \E c \in Names : c \in Listed(list_collections(disk))
    /\ \E c \in Names : c \notin Listed(list_collections(disk))

\* C27: in the character-based fallback of chunk_text, with
\* 0 <= chunk_overlap < chunk_size, every pass of the loop moves start
\* strictly forward, so the loop ends after finitely many chunks.
C27_StartAdvances ==
    [][(chunker.pc = "loop" /\ chunker'.pc = "loop"
            /\ chunker'.chunks = chunker.chunks + 1)
          => chunker'.start > chunker.start]_vars

====
